---- MODULE Spec2Model ----
(***************************************************************************)
(* openmdao.Model (static/js/openmdao/Model.js): the topic registry, the   *)
(* two lazily opened websocket channels (outstream, pubstream), the legacy *)
(* broadcast updateListeners, and the request/response calls that trigger  *)
(* it.  One Model instance, one browser event loop: every action is one    *)
(* event handler (or one public call) run to completion.                   *)
(*                                                                         *)
(* JavaScript strings are sequences of one-character strings, so that      *)
(* message[0], 'prob.'+x and jQuery.parseJSON are computed, not assumed.   *)
(***************************************************************************)
EXTENDS Integers, Sequences, FiniteSets, TLC

VARIABLES subscribers, keys, outstream_socket, publisher_socket,
          chan, lookups, topic, lastOp, lastCalls, lastThrew,
          wire, sent, handled

vars == <<subscribers, keys, outstream_socket, publisher_socket,
          chan, lookups, topic, lastOp, lastCalls, lastThrew,
          wire, sent, handled>>

(***************************************************************************)
(* Bounds                                                                  *)
(***************************************************************************)
\* total number of addListener registrations explored
MaxSubs == 2
\* number of messages the remote process sends on one channel (SpecOrder)
MaxSent == 2
\* size the registry may reach by registrations made from callbacks
\* (SpecReentrant)
MaxGrown == 4

(***************************************************************************)
(* Strings                                                                 *)
(***************************************************************************)
\* line 11: outstream_topic = 'outstream'
outstream_topic == <<"o", "u", "t", "s", "t", "r", "e", "a", "m">>

\* line 65: the literal 'prob.'
prob == <<"p", "r", "o", "b", ".">>

\* the names open_websocket is called with (lines 59 and 81)
Endpoints == {"outstream", "pubstream"}

\* topics consumers register under: the output topic, the rewritten form
\* 'prob.f' of the publisher's topic 'f', and the publisher's topic '['
\* as the publisher names it
Topics == {outstream_topic, prob \o <<"f">>, <<"[">>}

\* topic names the remote publisher uses in its envelopes
RawTopics == {<<"f">>, <<"[">>}

\* payload element of an envelope
Payloads == {<<"1">>}

\* the publisher's serialisation of the envelope [t, p]:  ["t",p]
Encode(t, p) == <<"[", "\"">> \o t \o <<"\"", ",">> \o p \o <<"]">>

\* text frames that are not JSON: a truncated envelope and a bare word
Malformed == {<<"[", "\"", "f">>, <<"f">>}

\* text frames the publisher socket may deliver
Frames == {Encode(t, p) : t \in RawTopics, p \in Payloads} \cup Malformed

\* text frames the outstream socket may deliver
OutData == {<<"h", "i">>, <<"[">>}

(***************************************************************************)
(* Callbacks: what consumers pass as the second argument of addListener    *)
(***************************************************************************)
\* A, B: functions that return; X: a function that throws; N: not a function
Callbacks == {"A", "B", "X", "N"}

\* typeof callbacks[i] === 'function'
IsFunction(cb) == cb # "N"

\* the call callbacks[i](...) raises an exception
Throws(cb) == cb = "X"

\* argument lists of a callback invocation
NoArg == [kind |-> "undefined", val |-> <<>>]
StringArg(s) == [kind |-> "string", val |-> <<s>>]

(***************************************************************************)
(* handle_message's string operations (lines 65-67)                        *)
(***************************************************************************)
\* message[0] read on a string primitive: its first character; the empty
\* string has no property '0', and undefined used as a key is 'undefined'
CharAt0(s) ==
    IF Len(s) > 0 THEN <<s[1]>>
    ELSE <<"u", "n", "d", "e", "f", "i", "n", "e", "d">>

\* message[0] = v on a string primitive (the file is not strict mode): the
\* assignment is dropped and the string is unchanged
AssignIndex0(s, v) == s

IsDigit(c) == c \in {"0", "1", "2", "3", "4", "5", "6", "7", "8", "9"}

\* position of the first '"' of s at or after position i (0 when none)
RECURSIVE QuoteFrom(_, _)
QuoteFrom(s, i) ==
    IF i > Len(s) THEN 0
    ELSE IF s[i] = "\"" THEN i
    ELSE QuoteFrom(s, i + 1)

\* jQuery.parseJSON on a text frame: the decoded array [topic, payload] of
\* a text of the form ["topic",digits]; any other text of Frames is not
\* JSON and parseJSON raises 'Invalid JSON'
parseJSON(s) ==
    LET q == QuoteFrom(s, 3)
        n == Len(s)
        wellFormed ==
            /\ n >= 6
            /\ s[1] = "[" /\ s[2] = "\""
            /\ q >= 3 /\ q + 2 <= n - 1
            /\ s[q + 1] = ","
            /\ \A k \in (q + 2)..(n - 1) : IsDigit(s[k])
            /\ s[n] = "]"
    IN  IF wellFormed
        THEN [ok |-> TRUE,
              value |-> <<SubSeq(s, 3, q - 1), SubSeq(s, q + 2, n - 1)>>]
        ELSE [ok |-> FALSE, value |-> <<>>]

(***************************************************************************)
(* The fan-out loops                                                       *)
(***************************************************************************)
\* for (i = 0; i < callbacks.length; i++) { if (typeof callbacks[i] ===
\* 'function') callbacks[i](arg); else debug.error(..., topic, ...) }
\* started at entry i.  topicBound tells whether the identifier `topic` of
\* the else branch resolves; reading an unresolvable identifier raises
\* ReferenceError.  An exception leaves the loop.
RECURSIVE CallbackLoop(_, _, _, _)
CallbackLoop(callbacks, i, arg, topicBound) ==
    IF i > Len(callbacks)
    THEN [calls |-> <<>>, threw |-> "none"]
    ELSE IF IsFunction(callbacks[i])
    THEN IF Throws(callbacks[i])
         THEN [calls |-> <<[cb |-> callbacks[i], arg |-> arg]>>,
               threw |-> "CallbackError"]
         ELSE LET rest == CallbackLoop(callbacks, i + 1, arg, topicBound)
              IN  [calls |-> <<[cb |-> callbacks[i], arg |-> arg]>> \o rest.calls,
                   threw |-> rest.threw]
    ELSE IF topicBound
    THEN CallbackLoop(callbacks, i + 1, arg, topicBound)
    ELSE [calls |-> <<>>, threw |-> "ReferenceError"]

\* handle_output(data): `topic` is the parameter of open_outstream_socket
handle_output(data) ==
    CallbackLoop(subscribers[outstream_topic], 1, StringArg(data), TRUE)

\* handle_message(message): `topic` is not declared in any enclosing
\* function, so it is the global that updateListeners' for-in creates
handle_message(message) ==
    LET m == AssignIndex0(message, prob \o CharAt0(message))
        parsed == parseJSON(m)
        key == CharAt0(m)
    IN  IF ~parsed.ok
        THEN [calls |-> <<>>, threw |-> "InvalidJSON"]
        ELSE IF key \in DOMAIN subscribers
        THEN CallbackLoop(subscribers[key], 1, StringArg(m), topic.declared)
        ELSE [calls |-> <<>>, threw |-> "none"]

\* for (topic in subscribers) { if (topic !== outstream_topic) {...} }
\* from the k-th key on; tp is the value of the global `topic` so far
RECURSIVE TopicLoop(_, _)
TopicLoop(k, tp) ==
    IF k > Len(keys)
    THEN [calls |-> <<>>, threw |-> "none", topic |-> tp]
    ELSE LET now == [declared |-> TRUE, value |-> keys[k]]
         IN  IF keys[k] # outstream_topic
             THEN LET here == CallbackLoop(subscribers[keys[k]], 1, NoArg, TRUE)
                  IN  IF here.threw # "none"
                      THEN [calls |-> here.calls, threw |-> here.threw,
                            topic |-> now]
                      ELSE LET rest == TopicLoop(k + 1, now)
                           IN  [calls |-> here.calls \o rest.calls,
                                threw |-> rest.threw, topic |-> rest.topic]
             ELSE TopicLoop(k + 1, now)

\* this.updateListeners()
updateListeners == TopicLoop(1, topic)

(***************************************************************************)
(* State                                                                   *)
(***************************************************************************)
\* value of the global `topic` before any for-in has assigned it
Undeclared == [declared |-> FALSE, value |-> <<>>]

\* shape of lastOp: the handler or public call that ran last
Op(name, t, a) == [op |-> name, topic |-> t, arg |-> a]

\* number of registered callbacks over all topics
RECURSIVE CountSubs(_)
CountSubs(k) == IF k = 0 THEN 0 ELSE Len(subscribers[keys[k]]) + CountSubs(k - 1)

\* Init with the publisher socket requested by the constructor
Init_EagerOpen ==
    /\ subscribers = <<>>
    /\ keys = <<>>
    /\ outstream_socket = FALSE
    /\ publisher_socket = TRUE
    /\ chan = [e \in Endpoints |-> IF e = "pubstream" THEN "lookup" ELSE "absent"]
    /\ lookups = [e \in Endpoints |-> IF e = "pubstream" THEN 1 ELSE 0]
    /\ topic = Undeclared
    /\ lastOp = Op("new", <<>>, <<>>)
    /\ lastCalls = <<>>
    /\ lastThrew = "none"
    /\ wire = [e \in Endpoints |-> <<>>]
    /\ sent = [e \in Endpoints |-> 0]
    /\ handled = [e \in Endpoints |-> 0]

\* lines 10-14: no topic, neither socket requested; nothing has run
Init ==
    /\ subscribers = <<>>
    /\ keys = <<>>
    /\ outstream_socket = FALSE
    /\ publisher_socket = FALSE
    /\ chan = [e \in Endpoints |-> "absent"]
    /\ lookups = [e \in Endpoints |-> 0]
    /\ topic = Undeclared
    /\ lastOp = Op("new", <<>>, <<>>)
    /\ lastCalls = <<>>
    /\ lastThrew = "none"
    /\ wire = [e \in Endpoints |-> <<>>]
    /\ sent = [e \in Endpoints |-> 0]
    /\ handled = [e \in Endpoints |-> 0]

(***************************************************************************)
(* addListener (lines 89-107)                                              *)
(***************************************************************************)
\* OpensOutstream without the new-topic branch and without the flag test
OpensOutstream_EveryRegistration(t, isNew) == t = outstream_topic

\* OpensPublisher without the flag test
OpensPublisher_EveryNewTopic(t, isNew) == isNew

\* OpensOutstream without the test of the topic
OpensOutstream_AnyTopic(t, isNew) == isNew /\ ~outstream_socket

\* line 98: topic === outstream_topic && !outstream_socket, in the branch
\* of a topic that was not in subscribers
OpensOutstream(t, isNew) == isNew /\ t = outstream_topic /\ ~outstream_socket

\* OpensPublisher as the else-branch of the outstream test (else if)
OpensPublisher_ElseIf(t, isNew) ==
    isNew /\ ~publisher_socket /\ ~(t = outstream_topic /\ ~outstream_socket)

\* line 102: !publisher_socket, in the branch of a new topic
OpensPublisher(t, isNew) == isNew /\ ~publisher_socket

\* open_websocket(url, handler): the jQuery.ajax GET of `url` is issued
\* when `opens` holds; the socket is created later, by the success event
open_websocket(ch, lk, url, opens) ==
    IF opens
    THEN [chan |-> [ch EXCEPT ![url] = "lookup"],
          lookups |-> [lk EXCEPT ![url] = @ + 1]]
    ELSE [chan |-> ch, lookups |-> lk]

\* AddListener that leaves the list alone when the callback is already
\* in it
AddListener_Dedup(t, callback) ==
    LET isNew == t \notin DOMAIN subscribers
        o == open_websocket(chan, lookups, "outstream", OpensOutstream(t, isNew))
        p == open_websocket(o.chan, o.lookups, "pubstream", OpensPublisher(t, isNew))
    IN  /\ CountSubs(Len(keys)) < MaxSubs
        /\ subscribers' =
              IF isNew
              THEN [k \in DOMAIN subscribers \cup {t} |->
                        IF k = t THEN <<callback>> ELSE subscribers[k]]
              ELSE IF \E n \in 1..Len(subscribers[t]) : subscribers[t][n] = callback
              THEN subscribers
              ELSE [subscribers EXCEPT ![t] = Append(@, callback)]
        /\ keys' = IF isNew THEN Append(keys, t) ELSE keys
        /\ outstream_socket' = (outstream_socket \/ OpensOutstream(t, isNew))
        /\ publisher_socket' = (publisher_socket \/ OpensPublisher(t, isNew))
        /\ chan' = p.chan
        /\ lookups' = p.lookups
        /\ lastOp' = Op("addListener", t, <<callback>>)
        /\ lastCalls' = <<>>
        /\ lastThrew' = "none"
        /\ UNCHANGED topic

AddListener(t, callback) ==
    LET isNew == t \notin DOMAIN subscribers
        o == open_websocket(chan, lookups, "outstream", OpensOutstream(t, isNew))
        p == open_websocket(o.chan, o.lookups, "pubstream", OpensPublisher(t, isNew))
    IN  /\ CountSubs(Len(keys)) < MaxSubs
        /\ subscribers' =
              IF isNew
              THEN [k \in DOMAIN subscribers \cup {t} |->
                        IF k = t THEN <<callback>> ELSE subscribers[k]]
              ELSE [subscribers EXCEPT ![t] = Append(@, callback)]
        /\ keys' = IF isNew THEN Append(keys, t) ELSE keys
        /\ outstream_socket' = (outstream_socket \/ OpensOutstream(t, isNew))
        /\ publisher_socket' = (publisher_socket \/ OpensPublisher(t, isNew))
        /\ chan' = p.chan
        /\ lookups' = p.lookups
        /\ lastOp' = Op("addListener", t, <<callback>>)
        /\ lastCalls' = <<>>
        /\ lastThrew' = "none"
        /\ UNCHANGED topic

(***************************************************************************)
(* open_websocket's asynchronous events (lines 22-41)                      *)
(***************************************************************************)
\* a handler or call that only logs or only sends a request: no callback
\* runs, nothing of the Model changes
Quiet(name) ==
    /\ lastOp' = Op(name, <<>>, <<>>) /\ lastCalls' = <<>> /\ lastThrew' = "none"
    /\ UNCHANGED <<subscribers, keys, outstream_socket, publisher_socket,
                   lookups, topic>>

\* success: new WebSocket(addr), the four handlers are installed
LookupSuccess(url) ==
    /\ chan[url] = "lookup"
    /\ chan' = [chan EXCEPT ![url] = "connecting"]
    /\ Quiet("ajax.success")

\* LookupError that also clears the manager's flag
LookupError_ClearsFlag(url) ==
    /\ chan[url] = "lookup"
    /\ chan' = [chan EXCEPT ![url] = "failed"]
    /\ outstream_socket' = (outstream_socket /\ url # "outstream")
    /\ publisher_socket' = (publisher_socket /\ url # "pubstream")
    /\ lastOp' = Op("ajax.error", <<>>, <<>>)
    /\ lastCalls' = <<>> /\ lastThrew' = "none"
    /\ UNCHANGED <<subscribers, keys, lookups, topic>>

\* error: two debug.error lines, nothing else
LookupError(url) ==
    /\ chan[url] = "lookup"
    /\ chan' = [chan EXCEPT ![url] = "failed"]
    /\ Quiet("ajax.error")

\* socket.onopen: debug.info
SocketOpen(url) ==
    /\ chan[url] = "connecting"
    /\ chan' = [chan EXCEPT ![url] = "open"]
    /\ Quiet("onopen")

\* socket.onerror: debug.info; the close event follows on its own
SocketError(url) ==
    /\ chan[url] \in {"connecting", "open"}
    /\ chan' = chan
    /\ Quiet("onerror")

\* SocketClose that clears the manager's flag, so that a later new topic
\* opens the channel again
SocketClose_ClearsFlag(url) ==
    /\ chan[url] \in {"connecting", "open"}
    /\ chan' = [chan EXCEPT ![url] = "closed"]
    /\ outstream_socket' = (outstream_socket /\ url # "outstream")
    /\ publisher_socket' = (publisher_socket /\ url # "pubstream")
    /\ lastOp' = Op("onclose", <<>>, <<>>)
    /\ lastCalls' = <<>> /\ lastThrew' = "none"
    /\ UNCHANGED <<subscribers, keys, lookups, topic>>

\* socket.onclose: debug.info
SocketClose(url) ==
    /\ chan[url] \in {"connecting", "open"}
    /\ chan' = [chan EXCEPT ![url] = "closed"]
    /\ Quiet("onclose")

\* socket.onmessage of the outstream socket: handle_output(e.data)
OutstreamMessage(data) ==
    /\ chan["outstream"] = "open"
    /\ lastOp' = Op("handle_output", outstream_topic, data)
    /\ lastCalls' = handle_output(data).calls
    /\ lastThrew' = handle_output(data).threw
    /\ UNCHANGED <<subscribers, keys, outstream_socket, publisher_socket,
                   chan, lookups, topic>>

\* socket.onmessage of the publisher socket: handle_message(e.data)
PublisherMessage(message) ==
    /\ chan["pubstream"] = "open"
    /\ lastOp' = Op("handle_message", CharAt0(message), message)
    /\ lastCalls' = handle_message(message).calls
    /\ lastThrew' = handle_message(message).threw
    /\ UNCHANGED <<subscribers, keys, outstream_socket, publisher_socket,
                   chan, lookups, topic>>

(***************************************************************************)
(* updateListeners and the request/response calls that end in it           *)
(***************************************************************************)
\* a consumer calls model.updateListeners()
UpdateListeners ==
    /\ lastOp' = Op("updateListeners", <<>>, <<>>)
    /\ lastCalls' = updateListeners.calls
    /\ lastThrew' = updateListeners.threw
    /\ topic' = updateListeners.topic
    /\ UNCHANGED <<subscribers, keys, outstream_socket, publisher_socket,
                   chan, lookups>>

\* response body of a successful request
ResponseText == <<"o", "k">>

\* the call self.updateListeners() as an entry of lastCalls
BroadcastCall == [cb |-> "updateListeners", arg |-> NoArg]

\* success: function(txt) { if (typeof callback == 'function')
\* callback(txt); self.updateListeners() }  (lines 269-274, 284-289)
SuccessHandler(callback) ==
    IF IsFunction(callback) /\ Throws(callback)
    THEN [calls |-> <<[cb |-> callback, arg |-> StringArg(ResponseText)]>>,
          threw |-> "CallbackError", topic |-> topic]
    ELSE [calls |-> (IF IsFunction(callback)
                     THEN <<[cb |-> callback, arg |-> StringArg(ResponseText)]>>
                     ELSE <<>>) \o <<BroadcastCall>> \o updateListeners.calls,
          threw |-> updateListeners.threw,
          topic |-> updateListeners.topic]

\* issueCommand(cmd, callback, errorHandler) and addComponent(typepath,
\* name, parent, callback) only send a POST (addComponent calls
\* openmdao.Util['$'+name] instead when typepath matches /driver/ and that
\* function exists, line 263).  The request in flight is held by jQuery and
\* is no state of the Model, so each response action below stands for the
\* response to a call made earlier.
IssueCommand ==
    /\ Quiet("issueCommand")
    /\ UNCHANGED chan

AddComponent ==
    /\ Quiet("addComponent")
    /\ UNCHANGED chan

\* the success handler of issueCommand(cmd, callback, errorHandler) runs
IssueCommandSuccess(callback) ==
    /\ lastOp' = Op("issueCommand.success", <<>>, <<callback>>)
    /\ lastCalls' = SuccessHandler(callback).calls
    /\ lastThrew' = SuccessHandler(callback).threw
    /\ topic' = SuccessHandler(callback).topic
    /\ UNCHANGED <<subscribers, keys, outstream_socket, publisher_socket,
                   chan, lookups>>

\* the success handler of addComponent(typepath, name, parent, callback) runs
AddComponentSuccess(callback) ==
    /\ lastOp' = Op("addComponent.success", <<>>, <<callback>>)
    /\ lastCalls' = SuccessHandler(callback).calls
    /\ lastThrew' = SuccessHandler(callback).threw
    /\ topic' = SuccessHandler(callback).topic
    /\ UNCHANGED <<subscribers, keys, outstream_socket, publisher_socket,
                   chan, lookups>>

\* issueCommand's request fails: error: errorHandler, the caller's handler;
\* updateListeners is not called
IssueCommandError ==
    /\ Quiet("issueCommand.error")
    /\ UNCHANGED chan

\* callbacks passed to the request calls: a function, a throwing function,
\* or none
RequestCallbacks == {"A", "X", "N"}

\* a step of Spec takes a message off the socket and handles it at once:
\* the frames in flight are followed only in SpecOrder
Idle == UNCHANGED <<wire, sent, handled>>

Next ==
    \/ \E t \in Topics, cb \in Callbacks : AddListener(t, cb) /\ Idle
    \/ \E url \in Endpoints : LookupSuccess(url) /\ Idle
    \/ \E url \in Endpoints : LookupError(url) /\ Idle
    \/ \E url \in Endpoints : SocketOpen(url) /\ Idle
    \/ \E url \in Endpoints : SocketError(url) /\ Idle
    \/ \E url \in Endpoints : SocketClose(url) /\ Idle
    \/ \E data \in OutData : OutstreamMessage(data) /\ Idle
    \/ \E message \in Frames : PublisherMessage(message) /\ Idle
    \/ UpdateListeners /\ Idle
    \/ IssueCommand /\ Idle
    \/ AddComponent /\ Idle
    \/ \E cb \in RequestCallbacks : IssueCommandSuccess(cb) /\ Idle
    \/ \E cb \in RequestCallbacks : AddComponentSuccess(cb) /\ Idle
    \/ IssueCommandError /\ Idle

Spec == Init /\ [][Next]_vars

(***************************************************************************)
(* SpecOrder: the frames in flight on the two sockets.  The remote process *)
(* numbers what it sends, the browser queues the message events of a       *)
(* socket in arrival order and runs one onmessage handler to completion    *)
(* before it starts the next event of either socket.                       *)
(***************************************************************************)
Digits == <<"1", "2", "3", "4", "5", "6", "7", "8", "9">>

\* the n-th text frame the remote process writes on a channel: the console
\* text n on the outstream, the envelope ["[", n] on the publisher stream
FrameOf(url, n) ==
    IF url = "outstream" THEN <<Digits[n]>>
    ELSE Encode(<<"[">>, <<Digits[n]>>)

\* the remote process writes its next frame on an open socket
ServerSend(url) ==
    /\ chan[url] = "open"
    /\ sent[url] < MaxSent
    /\ sent' = [sent EXCEPT ![url] = @ + 1]
    /\ wire' = [wire EXCEPT ![url] =
                   Append(@, [seq |-> sent[url] + 1,
                              data |-> FrameOf(url, sent[url] + 1)])]
    /\ lastOp' = Op("send", <<>>, <<>>)
    /\ lastCalls' = <<>>
    /\ lastThrew' = "none"
    /\ UNCHANGED <<subscribers, keys, outstream_socket, publisher_socket,
                   chan, lookups, topic, handled>>

\* the message event onmessage is run for: the newest instead of the oldest
NextFrame_Newest(q) == q[Len(q)]

\* the message event onmessage is run for: one call per event, oldest first
NextFrame(q) == Head(q)

\* socket.onmessage = function(e) { message_handler(e.data) } for the
\* next message event of the socket
Deliver(url) ==
    /\ wire[url] # <<>>
    /\ LET f == NextFrame(wire[url])
       IN  /\ wire' = [wire EXCEPT ![url] =
                          SelectSeq(@, LAMBDA g : g # f)]
           /\ handled' = [handled EXCEPT ![url] = f.seq]
           /\ IF url = "outstream"
              THEN OutstreamMessage(f.data)
              ELSE PublisherMessage(f.data)
    /\ UNCHANGED sent

\* socket.onclose: the frames still in flight on the socket are lost
Disconnect(url) ==
    /\ SocketClose(url)
    /\ wire' = [wire EXCEPT ![url] = <<>>]
    /\ UNCHANGED <<sent, handled>>

\* topics and callbacks registered while the order of messages is followed
OrderTopics == {outstream_topic, <<"[">>}
OrderCallbacks == {"A", "X"}

NextOrder ==
    \/ \E t \in OrderTopics, cb \in OrderCallbacks : AddListener(t, cb) /\ Idle
    \/ \E url \in Endpoints : LookupSuccess(url) /\ Idle
    \/ \E url \in Endpoints : LookupError(url) /\ Idle
    \/ \E url \in Endpoints : SocketOpen(url) /\ Idle
    \/ \E url \in Endpoints : SocketError(url) /\ Idle
    \/ \E url \in Endpoints : Disconnect(url)
    \/ \E url \in Endpoints : ServerSend(url)
    \/ \E url \in Endpoints : Deliver(url)

SpecOrder == Init /\ [][NextOrder]_vars

(***************************************************************************)
(* SpecReentrant: callbacks that call model.addListener while a fan-out    *)
(* runs.  The loops are those of CallbackLoop and TopicLoop, carrying the  *)
(* Model's state through the calls the callbacks make.                     *)
(***************************************************************************)
\* "Rs" registers A under the topic it is subscribed to, "Ro" under the
\* other topic, "RX" under its own topic and then throws
ReCallbacks == {"A", "Rs", "Ro", "RX"}
Registers(cb) == cb \in {"Rs", "Ro", "RX"}
ThrowsR(cb) == Throws(cb) \/ cb = "RX"
OtherTopic(t) == IF t = outstream_topic THEN <<"[">> ELSE outstream_topic
TargetOf(cb, t) == IF cb = "Ro" THEN OtherTopic(t) ELSE t

\* the Model's state as a value
Now ==
    [subscribers |-> subscribers, keys |-> keys,
     outstream_socket |-> outstream_socket,
     publisher_socket |-> publisher_socket,
     chan |-> chan, lookups |-> lookups]

\* this.addListener(t, callback) on the state st (lines 89-107)
addListener(st, t, callback) ==
    LET isNew == t \notin DOMAIN st.subscribers
        opensO == isNew /\ t = outstream_topic /\ ~st.outstream_socket
        opensP == isNew /\ ~st.publisher_socket
        o == open_websocket(st.chan, st.lookups, "outstream", opensO)
        p == open_websocket(o.chan, o.lookups, "pubstream", opensP)
    IN  [subscribers |->
            IF isNew
            THEN [k \in DOMAIN st.subscribers \cup {t} |->
                      IF k = t THEN <<callback>> ELSE st.subscribers[k]]
            ELSE [st.subscribers EXCEPT ![t] = Append(@, callback)],
         keys |-> IF isNew THEN Append(st.keys, t) ELSE st.keys,
         outstream_socket |-> (st.outstream_socket \/ opensO),
         publisher_socket |-> (st.publisher_socket \/ opensP),
         chan |-> p.chan, lookups |-> p.lookups]

\* the state after callback cb of topic t's list has run
Ran(st, cb, t) ==
    IF Registers(cb) THEN addListener(st, TargetOf(cb, t), "A") ELSE st

\* CallbackLoop over subscribers[t] from entry i on: `callbacks` is the
\* array object itself, so callbacks.length and callbacks[i] are read from
\* the list as the callbacks run so far have left it
RECURSIVE CallbackLoopR(_, _, _, _, _)
CallbackLoopR(st, t, i, arg, topicBound) ==
    LET callbacks == st.subscribers[t]
    IN  IF i > Len(callbacks)
        THEN [calls |-> <<>>, threw |-> "none", st |-> st]
        ELSE IF IsFunction(callbacks[i])
        THEN LET call == [cb |-> callbacks[i], arg |-> arg]
                 st1 == Ran(st, callbacks[i], t)
             IN  IF ThrowsR(callbacks[i])
                 THEN [calls |-> <<call>>, threw |-> "CallbackError",
                       st |-> st1]
                 ELSE LET rest == CallbackLoopR(st1, t, i + 1, arg, topicBound)
                      IN  [calls |-> <<call>> \o rest.calls,
                           threw |-> rest.threw, st |-> rest.st]
        ELSE IF topicBound
        THEN CallbackLoopR(st, t, i + 1, arg, topicBound)
        ELSE [calls |-> <<>>, threw |-> "ReferenceError", st |-> st]

\* TopicLoop from the k-th key on.  n0 is the number of keys when the
\* for-in began; whether a key added during the enumeration is visited is
\* left to the implementation (visitNew)
RECURSIVE TopicLoopR(_, _, _, _, _)
TopicLoopR(st, n0, k, tp, visitNew) ==
    IF k > (IF visitNew THEN Len(st.keys) ELSE n0)
    THEN [calls |-> <<>>, threw |-> "none", topic |-> tp, st |-> st]
    ELSE LET now == [declared |-> TRUE, value |-> st.keys[k]]
         IN  IF st.keys[k] # outstream_topic
             THEN LET here == CallbackLoopR(st, st.keys[k], 1, NoArg, TRUE)
                  IN  IF here.threw # "none"
                      THEN [calls |-> here.calls, threw |-> here.threw,
                            topic |-> now, st |-> here.st]
                      ELSE LET rest == TopicLoopR(here.st, n0, k + 1, now,
                                                  visitNew)
                           IN  [calls |-> here.calls \o rest.calls,
                                threw |-> rest.threw, topic |-> rest.topic,
                                st |-> rest.st]
             ELSE TopicLoopR(st, n0, k + 1, now, visitNew)

\* handle_message(message) with the state carried through
handle_messageR(message) ==
    LET m == AssignIndex0(message, prob \o CharAt0(message))
        parsed == parseJSON(m)
        key == CharAt0(m)
    IN  IF ~parsed.ok
        THEN [calls |-> <<>>, threw |-> "InvalidJSON", st |-> Now]
        ELSE IF key \in DOMAIN subscribers
        THEN CallbackLoopR(Now, key, 1, StringArg(m), topic.declared)
        ELSE [calls |-> <<>>, threw |-> "none", st |-> Now]

\* number of registered callbacks that register another when they run
RECURSIVE CountRegistering(_)
CountRegistering(k) ==
    IF k = 0 THEN 0
    ELSE Len(SelectSeq(subscribers[keys[k]], Registers))
         + CountRegistering(k - 1)

\* the registry stays within MaxGrown entries whatever the fan-out adds
RoomToGrow == CountSubs(Len(keys)) + CountRegistering(Len(keys)) <= MaxGrown

\* the Model's state becomes st
Becomes(st) ==
    /\ subscribers' = st.subscribers
    /\ keys' = st.keys
    /\ outstream_socket' = st.outstream_socket
    /\ publisher_socket' = st.publisher_socket
    /\ chan' = st.chan
    /\ lookups' = st.lookups

\* socket.onmessage of the outstream socket
OutstreamMessageR(data) ==
    LET r == CallbackLoopR(Now, outstream_topic, 1, StringArg(data), TRUE)
    IN  /\ chan["outstream"] = "open"
        /\ RoomToGrow
        /\ lastOp' = Op("handle_output", outstream_topic, data)
        /\ lastCalls' = r.calls
        /\ lastThrew' = r.threw
        /\ Becomes(r.st)
        /\ UNCHANGED topic

\* socket.onmessage of the publisher socket
PublisherMessageR(message) ==
    LET r == handle_messageR(message)
    IN  /\ chan["pubstream"] = "open"
        /\ RoomToGrow
        /\ lastOp' = Op("handle_message", CharAt0(message), message)
        /\ lastCalls' = r.calls
        /\ lastThrew' = r.threw
        /\ Becomes(r.st)
        /\ UNCHANGED topic

\* a consumer calls model.updateListeners()
UpdateListenersR(visitNew) ==
    LET r == TopicLoopR(Now, Len(keys), 1, topic, visitNew)
    IN  /\ RoomToGrow
        /\ lastOp' = Op("updateListeners", <<"[">>, <<>>)
        /\ lastCalls' = r.calls
        /\ lastThrew' = r.threw
        /\ topic' = r.topic
        /\ Becomes(r.st)

ReData == {<<"h", "i">>}
ReFrames == {Encode(<<"[">>, <<"1">>)}

NextReentrant ==
    \/ \E t \in OrderTopics, cb \in ReCallbacks : AddListener(t, cb) /\ Idle
    \/ \E url \in Endpoints : LookupSuccess(url) /\ Idle
    \/ \E url \in Endpoints : SocketOpen(url) /\ Idle
    \/ \E data \in ReData : OutstreamMessageR(data) /\ Idle
    \/ \E message \in ReFrames : PublisherMessageR(message) /\ Idle
    \/ \E visitNew \in BOOLEAN : UpdateListenersR(visitNew) /\ Idle

SpecReentrant == Init /\ [][NextReentrant]_vars

(***************************************************************************)
(* What the last handler did, for the properties below                     *)
(***************************************************************************)
\* an envelope handed to a callback as a decoded array
ArrayArg(env) == [kind |-> "array", val |-> env]

\* the callbacks the last handler invoked, in order
Invoked == [j \in 1..Len(lastCalls) |-> lastCalls[j].cb]

\* the entries of a subscriber list that are functions
CallableEntries(list) == SelectSeq(list, IsFunction)

\* the subscriber lists of all topics but the output topic, key after key
RECURSIVE BroadcastList(_)
BroadcastList(k) ==
    IF k > Len(keys) THEN <<>>
    ELSE (IF keys[k] # outstream_topic THEN subscribers[keys[k]] ELSE <<>>)
         \o BroadcastList(k + 1)

\* the last step was a fan-out: a handler reached its loop over a list
IsFanOut ==
    \/ lastOp.op \in {"handle_output", "updateListeners"}
    \/ /\ lastOp.op = "handle_message"
       /\ parseJSON(lastOp.arg).ok
       /\ lastOp.topic \in DOMAIN subscribers

\* the entries that fan-out went over
FanOutList ==
    IF lastOp.op = "handle_output" THEN subscribers[outstream_topic]
    ELSE IF lastOp.op = "handle_message" THEN subscribers[lastOp.topic]
    ELSE BroadcastList(1)

Flag(url) == IF url = "outstream" THEN outstream_socket ELSE publisher_socket

(***************************************************************************)
(* Properties                                                              *)
(***************************************************************************)
\* C1: a well-formed publisher message with raw topic t invokes every
\* callback registered under 'prob.'+t with the rewritten envelope, and
\* invokes no callback that is registered only under the raw topic t.
C1_PublisherRoutesToRewrittenTopic ==
    (lastOp.op = "handle_message" /\ parseJSON(lastOp.arg).ok) =>
        LET env == parseJSON(lastOp.arg).value
            T == prob \o env[1]
        IN  /\ T \in DOMAIN subscribers =>
                   \A i \in 1..Len(subscribers[T]) :
                       IsFunction(subscribers[T][i]) =>
                           \E j \in 1..Len(lastCalls) :
                               lastCalls[j] = [cb |-> subscribers[T][i],
                                               arg |-> ArrayArg(<<T, env[2]>>)]
            /\ (env[1] \in DOMAIN subscribers /\ T \notin DOMAIN subscribers) =>
                   lastCalls = <<>>

\* C2: the 'outstream' lookup has been issued at most once, and exactly
\* once as soon as the output topic has a registration, however many
\* registrations followed.
C2_OutstreamOpenedOnce ==
    /\ lookups["outstream"] <= 1
    /\ lookups["outstream"] = 1 <=> outstream_topic \in DOMAIN subscribers
    /\ outstream_socket <=> lookups["outstream"] = 1

C2_Witness ==
    /\ outstream_topic \in DOMAIN subscribers
    /\ Len(subscribers[outstream_topic]) >= 2
    /\ lookups["outstream"] = 1

\* C3: the 'pubstream' lookup has been issued at most once, and exactly
\* once as soon as any topic has a registration; a second topic does not
\* issue it again.
C3_PublisherOpenedOnce ==
    /\ lookups["pubstream"] <= 1
    /\ lookups["pubstream"] = 1 <=> keys # <<>>
    /\ publisher_socket <=> lookups["pubstream"] = 1

C3_Witness ==
    /\ Len(keys) >= 2
    /\ lookups["pubstream"] = 1

\* C4: while the registry is empty no directory lookup has been issued and
\* no channel exists, whatever updateListeners and request/response calls
\* have run.
C4_LazyOpen ==
    keys = <<>> =>
        \A url \in Endpoints :
            lookups[url] = 0 /\ chan[url] = "absent" /\ ~Flag(url)

C4_Witness ==
    /\ keys = <<>>
    /\ lastOp.op \in {"updateListeners", "issueCommand.success",
                      "addComponent.success"}

\* C5: every fan-out invokes the callbacks of the list it goes over in
\* registration order, each entry exactly once.
C5_FanOutInRegistrationOrder ==
    IsFanOut => Invoked = CallableEntries(FanOutList)

\* C6: updateListeners invokes every callback of every topic but the
\* output topic, with no payload, and no entry of the output topic.
C6_UpdateListenersSkipsOutputTopic ==
    lastOp.op = "updateListeners" =>
        /\ Invoked = CallableEntries(BroadcastList(1))
        /\ \A j \in 1..Len(lastCalls) : lastCalls[j].arg = NoArg

\* C7: a fan-out over a list that holds a non-callable entry (and whose
\* callbacks all return) raises nothing and invokes every callback of the
\* list, those before and those after the entry.
C7_NonCallableSkipped ==
    (/\ IsFanOut
     /\ \E i \in 1..Len(FanOutList) : ~IsFunction(FanOutList[i])
     /\ \A i \in 1..Len(FanOutList) : ~Throws(FanOutList[i])) =>
        /\ lastThrew = "none"
        /\ Invoked = CallableEntries(FanOutList)

\* C8: a fan-out over a list of functions invokes every one of them, also
\* those registered after one that throws.
C8_CallbackIsolation ==
    (/\ IsFanOut
     /\ \A i \in 1..Len(FanOutList) : IsFunction(FanOutList[i])) =>
        Invoked = FanOutList

\* C9: a malformed publisher message invokes no callback and raises no
\* error out of the handler.
C9_MalformedDropped ==
    (lastOp.op = "handle_message" /\ ~parseJSON(lastOp.arg).ok) =>
        /\ lastCalls = <<>>
        /\ lastThrew = "none"

\* C10: addListener never raises; once the lookup of an endpoint has
\* failed, the manager's flag is true and stays true, the registrations
\* are kept, the lookup count stays one, the channel stays failed and no
\* message of that channel is handled.
C10_LookupFailure ==
    [][/\ lastOp'.op = "addListener" => lastThrew' = "none"
       /\ \A url \in Endpoints :
            chan[url] = "failed" =>
                /\ Flag(url) /\ lookups[url] = 1
                /\ keys # <<>>
                /\ url = "outstream" => outstream_topic \in DOMAIN subscribers
                /\ chan'[url] = "failed"
                /\ lookups'[url] = 1
                /\ IF url = "outstream" THEN outstream_socket' ELSE publisher_socket'
                /\ \A t \in DOMAIN subscribers :
                       /\ t \in DOMAIN subscribers'
                       /\ SubSeq(subscribers'[t], 1, Len(subscribers[t]))
                              = subscribers[t]
                /\ lastOp'.op # (IF url = "outstream" THEN "handle_output"
                                 ELSE "handle_message")]_vars

C10_Witness ==
    /\ chan["outstream"] = "failed"
    /\ lastOp.op = "addListener"
    /\ lastOp.topic = outstream_topic
    /\ Len(subscribers[outstream_topic]) >= 2

\* the set of entries of a subscriber list
Entries(list) == {list[i] : i \in 1..Len(list)}

\* C11: a message invokes only callbacks registered under the topic it
\* resolves to: 'prob.'+t for a publisher envelope with topic t, the output
\* topic for an output-stream message.
C11_RoutedToResolvedTopicOnly ==
    /\ (lastOp.op = "handle_message" /\ parseJSON(lastOp.arg).ok) =>
           LET T == prob \o parseJSON(lastOp.arg).value[1]
           IN  \A j \in 1..Len(lastCalls) :
                   /\ T \in DOMAIN subscribers
                   /\ lastCalls[j].cb \in Entries(subscribers[T])
    /\ lastOp.op = "handle_output" =>
           \A j \in 1..Len(lastCalls) :
               lastCalls[j].cb \in Entries(subscribers[outstream_topic])

\* C12: an addListener call that creates the first topic issues both
\* lookups when the topic is the output topic and only the 'pubstream'
\* lookup otherwise; a later first registration of the output topic issues
\* only the 'outstream' lookup.
C12_FirstRegistrationOpens ==
    [][subscribers' # subscribers =>
          LET t == lastOp'.topic
          IN  /\ (keys = <<>> /\ t = outstream_topic) =>
                     lookups' = [url \in Endpoints |-> 1]
              /\ (keys = <<>> /\ t # outstream_topic) =>
                     lookups' = [url \in Endpoints |->
                                    IF url = "pubstream" THEN 1 ELSE 0]
              /\ (keys # <<>> /\ t = outstream_topic
                    /\ t \notin DOMAIN subscribers) =>
                     /\ lookups'["outstream"] = lookups["outstream"] + 1
                     /\ lookups'["pubstream"] = lookups["pubstream"]]_vars

C12_Witness ==
    /\ keys = <<outstream_topic>>
    /\ lastOp.op = "addListener"
    /\ lookups = [url \in Endpoints |-> 1]

\* C13: a manager's flag, once true, is true in every later state, and
\* once it is true no further lookup of its endpoint is issued: not after
\* the channel opened, closed, raised an error or failed to resolve.
C13_EstablishedIsMonotone ==
    [][\A url \in Endpoints :
          Flag(url) =>
              /\ IF url = "outstream" THEN outstream_socket' ELSE publisher_socket'
              /\ lookups'[url] = lookups[url]
              /\ chan[url] \in {"closed", "failed"} => chan'[url] = chan[url]]_vars

C13_Witness ==
    /\ chan["pubstream"] = "closed"
    /\ lastOp.op = "addListener"
    /\ Len(keys) >= 2
    /\ publisher_socket
    /\ lookups["pubstream"] = 1

\* C14: an output-stream message is handed, unchanged, to every callback
\* registered under the output topic when it is handled, in whatever
\* channel state those callbacks were registered.
C14_OutputFannedOutVerbatim ==
    lastOp.op = "handle_output" =>
        /\ Invoked = CallableEntries(subscribers[outstream_topic])
        /\ \A j \in 1..Len(lastCalls) : lastCalls[j].arg = StringArg(lastOp.arg)

\* C15: a fan-out over topic T's list during which callbacks call
\* addListener still invokes every entry the list had when it began, once
\* each and in list order, before any entry added meanwhile, and leaves
\* every list of the registry as it was with at most new entries appended.
C15_ReentrantRegistrationSafe ==
    [][LET t == lastOp'.topic
           calls == lastCalls'
       IN  (/\ lastOp'.op \in {"handle_output", "handle_message",
                               "updateListeners"}
            /\ t \in DOMAIN subscribers)
           => /\ Len(calls) >= Len(subscribers[t])
              /\ \A k \in 1..Len(subscribers[t]) :
                    calls[k].cb = subscribers[t][k]
              /\ Len(calls) <= Len(subscribers'[t])
              /\ \A k \in 1..Len(calls) : calls[k].cb = subscribers'[t][k]
              /\ \A u \in DOMAIN subscribers :
                    /\ u \in DOMAIN subscribers'
                    /\ Len(subscribers'[u]) >= Len(subscribers[u])
                    /\ SubSeq(subscribers'[u], 1, Len(subscribers[u]))
                          = subscribers[u]]_vars

\* C16: on each socket the messages are handled in the order the socket
\* delivers them, one message per step: a step that handles a message of a
\* socket handles the one sent right after the last one handled there (or
\* after those lost with a closed socket, never an earlier one), leaves the
\* other socket's progress alone, and every callback invocation of the step
\* carries that message's own text, so the invocations for one message are
\* over before those for the next begin.
C16_PerChannelOrder ==
    [][\A url \in Endpoints :
          handled'[url] # handled[url] =>
             /\ handled'[url] > handled[url]
             /\ \A g \in Entries(wire[url]) : g.seq >= handled'[url]
             /\ \A other \in Endpoints \ {url} :
                   handled'[other] = handled[other]
             /\ lastOp'.arg = FrameOf(url, handled'[url])
             /\ lastOp'.op = (IF url = "outstream" THEN "handle_output"
                              ELSE "handle_message")
             /\ \A k \in 1..Len(lastCalls') :
                   lastCalls'[k].arg =
                      StringArg(FrameOf(url, handled'[url]))]_vars

\* both sockets have handled messages, the outstream its second one with a
\* callback invoked, while a publisher frame still waits in flight
C16_Witness ==
    /\ handled["outstream"] = 2
    /\ handled["pubstream"] = 1
    /\ Len(wire["pubstream"]) = 1
    /\ lastOp.op = "handle_output"
    /\ lastCalls # <<>>

C18_UnroutableDropped ==
    (/\ lastOp.op = "handle_message"
     /\ parseJSON(lastOp.arg).ok
     /\ prob \o parseJSON(lastOp.arg).value[1] \notin DOMAIN subscribers) =>
        /\ lastCalls = <<>>
        /\ lastThrew = "none"

\* C19: the output flag is true only if the output topic is registered and
\* the publisher flag is true; the publisher flag is true exactly when the
\* registry is not empty; when the output handler has run, the output
\* topic's list exists and is not empty.
C19_FlagInvariant ==
    /\ outstream_socket =>
           outstream_topic \in DOMAIN subscribers /\ publisher_socket
    /\ publisher_socket <=> keys # <<>>
    /\ lastOp.op = "handle_output" =>
           /\ outstream_topic \in DOMAIN subscribers
           /\ Len(subscribers[outstream_topic]) >= 1

C19_Witness ==
    /\ lastOp.op = "handle_output"
    /\ outstream_socket
    /\ publisher_socket

\* the number of calls of self.updateListeners() the last handler made
BroadcastCount == Len(SelectSeq(lastCalls, LAMBDA c : c = BroadcastCall))

\* C20: the success handler of issueCommand and of addComponent invokes
\* the caller's callback with the response body when it is a function, and
\* then calls updateListeners exactly once, with or without a callback;
\* the error response of issueCommand calls it not at all.
C20_SuccessThenBroadcast ==
    /\ lastOp.op \in {"issueCommand.success", "addComponent.success"} =>
           LET cb == lastOp.arg[1]
               first == [cb |-> cb, arg |-> StringArg(ResponseText)]
           IN  /\ BroadcastCount = 1
               /\ IF IsFunction(cb)
                  THEN /\ Len(lastCalls) >= 2
                       /\ lastCalls[1] = first
                       /\ lastCalls[2] = BroadcastCall
                  ELSE lastCalls[1] = BroadcastCall
    /\ lastOp.op = "issueCommand.error" => BroadcastCount = 0

====
